---- MODULE Spec2Model ----
(***************************************************************************)
(* Siamese AI Grader (src/App.tsx): document normalization, request        *)
(* composition and two-backend dispatch, modelled as a state machine.      *)
(*                                                                         *)
(* One action per handler or per continuation of an async function: an     *)
(* async function runs atomically up to its next suspension point.  A      *)
(* suspension that waits for I/O (file read, rasterization, network) lets  *)
(* user events interleave; a continuation that is already queued as a      *)
(* microtask runs before any user event.                                   *)
(***************************************************************************)
EXTENDS Integers, Sequences, FiniteSets, TLC

VARIABLES
    selectedModelId,  \* App.tsx:110
    qwenApiKey,       \* App.tsx:111
    studentMode,      \* App.tsx:116
    studentText,      \* App.tsx:117
    studentFile,      \* App.tsx:118
    question,         \* App.tsx:123
    rubricMode,       \* App.tsx:126
    rubricText,       \* App.tsx:127
    rubricFile,       \* App.tsx:128
    isLoading,        \* App.tsx:133
    result,           \* App.tsx:134
    error,            \* App.tsx:135
    reqs,             \* activations of handleGrade that have not finished
    norm,             \* one call of prepareFileForAI (normalizer on its own)
    preview           \* the student-paper preview of unnamed/part_002

vars == <<selectedModelId, qwenApiKey, studentMode, studentText, studentFile,
          question, rubricMode, rubricText, rubricFile, isLoading, result,
          error, reqs, norm, preview>>

appVars == <<selectedModelId, qwenApiKey, studentMode, studentText,
             studentFile, question, rubricMode, rubricText, rubricFile,
             isLoading, result, error, reqs>>

NULL == [null |-> TRUE]

(***************************************************************************)
(* Bounds of the model.                                                    *)
(***************************************************************************)
MaxPages == 6        \* page counts of the PDFs given to the normalizer

(***************************************************************************)
(* Program constants.                                                      *)
(***************************************************************************)
MAX_FILE_SIZE_MB == 10
MAX_DIMENSION == 1536
PageCap == 5
SmallImageMB == 2
PdfRasterMB == 3
PdfFallbackMB == 5
MB == 1024 * 1024

(***************************************************************************)
(* MIME types are <<type, subtype>>; the empty declared type is <<"","">>. *)
(***************************************************************************)
JPEG == <<"image", "jpeg">>
PNG == <<"image", "png">>
WEBP == <<"image", "webp">>
GIF == <<"image", "gif">>
HEICT == <<"image", "heic">>
PDF == <<"application", "pdf">>
TXT == <<"text", "plain">>
NOTYPE == <<"", "">>

MODELS ==
    { [id |-> "gemini-3-pro-preview", provider |-> "google"],
      [id |-> "gemini-2.5-flash", provider |-> "google"],
      [id |-> "qwen-vl-max", provider |-> "alibaba"],
      [id |-> "qwen-vl-plus", provider |-> "alibaba"] }

FirstModelId == "gemini-3-pro-preview"

\* MODELS.find(m => m.id === selectedModelId) || MODELS[0]
CurrentModel(id) ==
    IF \E m \in MODELS : m.id = id
    THEN CHOOSE m \in MODELS : m.id = id
    ELSE CHOOSE m \in MODELS : m.id = FirstModelId

(***************************************************************************)
(* Files.  A file is its name extension, declared type, byte length and    *)
(* what a decoder finds in it: the page count of a PDF, the pixel size of  *)
(* an image.                                                               *)
(***************************************************************************)
ToLowerCase(ext) == IF ext = ".HEIC" THEN ".heic" ELSE ext

\* variant: the extension is compared as typed
IsHeic_CaseSensitive(f) == f.ext = ".heic"

\* file.name.toLowerCase().endsWith('.heic')
IsHeic(f) == ToLowerCase(f.ext) = ".heic"
\* file.type === 'application/pdf'
IsPdf(f) == f.type = PDF
\* file.type.startsWith('image/')
StartsWithImage(f) == f.type[1] = "image"
\* file.type.match(/image\/(jpeg|png|webp)/)
MatchesRaster(f) == f.type[1] = "image" /\ f.type[2] \in {"jpeg", "png", "webp"}

IsStandardImage(f) == StartsWithImage(f) /\ ~IsHeic(f)
IsValidType(f) == IsStandardImage(f) \/ IsPdf(f) \/ IsHeic(f)
\* variant: the size check is forgotten
TooLarge_Never(f) == FALSE

TooLarge(f) == (IsPdf(f) \/ IsHeic(f)) /\ f.size > MAX_FILE_SIZE_MB * MB

(***************************************************************************)
(* Data of an ImagePart: the base64 payload after the comma of a data URL. *)
(* kind "raw" is the file's own bytes; kind "jpeg" is a canvas re-encoded  *)
(* as JPEG at quality 0.7, of page "page" of a PDF (page 0: of the image). *)
(***************************************************************************)
RawData(f) == [kind |-> "raw", of |-> f, page |-> 0, w |-> 0, h |-> 0]
CanvasData(f, p, w, h) == [kind |-> "jpeg", of |-> f, page |-> p, w |-> w, h |-> h]

Part(d, m) == [data |-> d, mimeType |-> m]

\* the base64 text is empty: split(',')[1] of the data URL of a file of no
\* bytes, or of the "data:," that toDataURL gives for a canvas of no area
\* (a rendered PDF page has the positive size of its viewport)
DataIsEmpty(d) ==
    IF d.kind = "raw" THEN d.of.size = 0
    ELSE d.page = 0 /\ (d.w = 0 \/ d.h = 0)

(***************************************************************************)
(* A message is a sequence of text fragments; msg.includes(s) is asked of  *)
(* the fragments.  The empty sequence is the absent message: the message   *)
(* property of a FileReader or Image error event, the null of "error".     *)
(***************************************************************************)
NoMessage == <<>>
MsgPdfFailed == <<"Failed to process PDF. Please upload JPG/PNG images directly.">>
MsgPdfJs == <<"Invalid PDF structure.">>

Ok(ps) == [ok |-> TRUE, parts |-> ps, message |-> NoMessage]
Throw(msg) == [ok |-> FALSE, parts |-> <<>>, message |-> msg]

Min(a, b) == IF a < b THEN a ELSE b
Max(a, b) == IF a > b THEN a ELSE b

(***************************************************************************)
(* resizeImage: the canvas size after the proportional downscale.  The     *)
(* canvas width and height attributes truncate the product to an integer.  *)
(***************************************************************************)
\* variant: only landscape images are scaled
ResizedDims_LandscapeOnly(width, height) ==
    IF width > height /\ width > MAX_DIMENSION
    THEN <<MAX_DIMENSION, (height * MAX_DIMENSION) \div width>>
    ELSE <<width, height>>

ResizedDims(width, height) ==
    IF width > height
    THEN IF width > MAX_DIMENSION
         THEN <<MAX_DIMENSION, (height * MAX_DIMENSION) \div width>>
         ELSE <<width, height>>
    ELSE IF height > MAX_DIMENSION
         THEN <<(width * MAX_DIMENSION) \div height, MAX_DIMENSION>>
         ELSE <<width, height>>

\* resolves with the JPEG of the canvas, rejects when the read or the
\* decoding of the image fails
ResizeImage(f, env) ==
    IF env.readFails \/ env.decodeFails
    THEN Throw(NoMessage)
    ELSE LET d == ResizedDims(f.width, f.height)
         IN  Ok(<<Part(CanvasData(f, 0, d[1], d[2]), JPEG)>>)

(***************************************************************************)
(* convertPdfToImages: pages 1..min(numPages, 5) in order, a page whose    *)
(* canvas has no 2d context is skipped.                                    *)
(***************************************************************************)
RECURSIVE PdfPages(_, _, _, _)
PdfPages(f, i, maxPages, env) ==
    IF i > maxPages THEN <<>>
    ELSE (IF i \in env.noCtx
          THEN <<>>
          ELSE <<Part(CanvasData(f, i, 0, 0), JPEG)>>)
         \o PdfPages(f, i + 1, maxPages, env)

\* variant: the page cap is forgotten
ConvertPdfToImages_NoCap(f, env) ==
    IF env.pdfThrows
    THEN Throw(MsgPdfJs)
    ELSE Ok(PdfPages(f, 1, f.numPages, env))

ConvertPdfToImages(f, env) ==
    IF env.pdfThrows
    THEN Throw(MsgPdfJs)
    ELSE Ok(PdfPages(f, 1, Min(f.numPages, PageCap), env))

\* FileReader.readAsDataURL then split(',')[1], with the given MIME type
RawRead(f, mime, env) ==
    IF env.readFails THEN Throw(NoMessage)
    ELSE Ok(<<Part(RawData(f), mime)>>)

\* variant: the declared type is kept for a file named .heic
Strategy3_DeclaredType(f, env) == RawRead(f, f.type, env)

Strategy3(f, env) == RawRead(f, IF IsHeic(f) THEN HEICT ELSE f.type, env)

\* variant: a failed resize fails the normalization
Strategy2_NoFallback(f, env) ==
    IF MatchesRaster(f)
    THEN IF f.size < SmallImageMB * MB
         THEN RawRead(f, f.type, env)
         ELSE ResizeImage(f, env)
    ELSE Strategy3(f, env)

\* variant: every raster image is resized, whatever its size
Strategy2_AlwaysResize(f, env) ==
    IF MatchesRaster(f)
    THEN LET r == ResizeImage(f, env)
         IN  IF r.ok THEN r ELSE Strategy3(f, env)
    ELSE Strategy3(f, env)

Strategy2(f, env) ==
    IF MatchesRaster(f)
    THEN IF f.size < SmallImageMB * MB
         THEN RawRead(f, f.type, env)
         ELSE LET r == ResizeImage(f, env)
              IN  IF r.ok THEN r ELSE Strategy3(f, env)
    ELSE Strategy3(f, env)

PrepareFileForAI(f, provider, env) ==
    IF IsPdf(f) /\ (provider = "alibaba" \/ f.size > PdfRasterMB * MB)
    THEN LET r == ConvertPdfToImages(f, env)
         IN  IF r.ok THEN r
             ELSE IF provider = "google" /\ f.size < PdfFallbackMB * MB
                  THEN Strategy2(f, env)
                  ELSE Throw(MsgPdfFailed)
    ELSE Strategy2(f, env)

(***************************************************************************)
(* The files and environments the normalizer is run on.  processFile only  *)
(* stores accepted files, so only those reach prepareFileForAI.            *)
(***************************************************************************)
Sizes == {0, 2 * MB - 1, 2 * MB, 3 * MB, 3 * MB + 1, 5 * MB - 1, 5 * MB,
          10 * MB, 10 * MB + 1}
Dims == {1, 1000, 1536, 1537, 4000}
Exts == {".jpg", ".pdf", ".heic", ".HEIC"}

File(ext, type, size, numPages, width, height) ==
    [ext |-> ext, type |-> type, size |-> size, numPages |-> numPages,
     width |-> width, height |-> height]

AllFiles ==
    { File(e, t, s, 0, w, h) :
        e \in Exts, t \in {JPEG, PNG, WEBP}, s \in Sizes, w \in Dims, h \in Dims }
    \cup { File(e, PDF, s, n, 0, 0) : e \in Exts, s \in Sizes, n \in 0..MaxPages }
    \cup { File(e, t, s, 0, 0, 0) :
             e \in Exts, t \in {GIF, HEICT, NOTYPE, TXT}, s \in Sizes }

Accepted(f) == IsValidType(f) /\ ~TooLarge(f)
NormFiles == { f \in AllFiles : Accepted(f) }

NoEnv == [pdfThrows |-> FALSE, noCtx |-> {}, decodeFails |-> FALSE,
          readFails |-> FALSE]

\* the outcomes of the environment that the given file can meet
EnvsFor(f) ==
    { [pdfThrows |-> pt, noCtx |-> nc, decodeFails |-> df, readFails |-> rf] :
        pt \in (IF IsPdf(f) THEN BOOLEAN ELSE {FALSE}),
        nc \in (IF IsPdf(f) THEN SUBSET (1..Min(f.numPages, PageCap)) ELSE {{}}),
        df \in (IF MatchesRaster(f) THEN BOOLEAN ELSE {FALSE}),
        rf \in BOOLEAN }

(***************************************************************************)
(* The normalizer on its own: one call of prepareFileForAI.                *)
(***************************************************************************)
NormIdle(f, p) == [pc |-> "called", file |-> f, provider |-> p, env |-> NoEnv,
                   out |-> Ok(<<>>)]

NormSettle ==
    /\ norm.pc = "called"
    /\ \E env \in EnvsFor(norm.file) :
         norm' = [norm EXCEPT !.pc = "settled", !.env = env,
                              !.out = PrepareFileForAI(norm.file, norm.provider, env)]
    /\ UNCHANGED <<appVars, preview>>


(***************************************************************************)
(* The form: what the user can type and select.                            *)
(***************************************************************************)
SelectableModels == {"gemini-3-pro-preview", "qwen-vl-max"}
Keys == {"", "sk-key"}
Texts == {"", "text"}
QuestionTexts == {"", " ", "Explain X"}
Modes == {"text", "file"}

ImgSmall == File(".jpg", JPEG, 2 * MB - 1, 0, 1000, 1000)
PdfSmall == File(".pdf", PDF, 3 * MB, 2, 0, 0)
TxtFile == File(".jpg", TXT, 0, 0, 0, 0)
PdfHuge == File(".pdf", PDF, 10 * MB + 1, 1, 0, 0)

StudentFiles == {ImgSmall, PdfSmall, TxtFile, PdfHuge}
RubricFiles == {PdfSmall, PdfHuge}

\* variant: white space is not trimmed
Trim_Identity(t) == t

\* text.trim()
Trim(t) == IF t = " " THEN "" ELSE t

MsgUnsupportedType == <<"Unsupported file type. Please upload an Image, PDF, or HEIC file.">>
MsgTooLarge == <<"File too large (", "10.0", "MB). Please use a file smaller than ",
                 "10", "MB or convert to JPG/PNG.">>
MsgNoStudentFile == <<"Please upload the student's answer file.">>
MsgNoStudentText == <<"Please enter the student's answer text.">>
MsgNoQuestion == <<"Please enter the Question Prompt.">>
MsgNoRubricText == <<"Please enter the rubric text.">>
MsgNoRubricFile == <<"Please upload the rubric file.">>
MsgMissingKey == <<"Please enter your Alibaba DashScope API Key.">>
MsgRawPdf == <<"PDF Conversion failed. Qwen cannot process raw PDF files.">>
MsgNoResponse == <<"No response received from AI.">>
MsgDefault == <<"An error occurred.">>
MsgPayloadTooLarge == <<"Network Error: The file payload is too large for the browser proxy. Resizing logic has been applied, but please try a simpler image if this persists.">>

NoError == NoMessage

\* msg.includes(s)
Includes(msg, s) == \E i \in DOMAIN msg : msg[i] = s

(***************************************************************************)
(* Replies.  A reply text is a sequence of lexical pieces: the opening     *)
(* fence followed by json, white space, the closing fence, or a JSON text. *)
(***************************************************************************)
FullResult == [shape |-> "GradingResult", breakdown |-> 1]
PartialResult == [shape |-> "no scoreBreakdown", breakdown |-> 0]

IsSpace(tok) == tok \in {" ", "\n"}

RECURSIVE DropLeadingSpace(_)
DropLeadingSpace(t) ==
    IF t # <<>> /\ IsSpace(Head(t)) THEN DropLeadingSpace(Tail(t)) ELSE t

RECURSIVE DropTrailingSpace(_)
DropTrailingSpace(t) ==
    IF t # <<>> /\ IsSpace(t[Len(t)])
    THEN DropTrailingSpace(SubSeq(t, 1, Len(t) - 1))
    ELSE t

\* jsonText.replace(/^<fence>json\s*/, "")
StripLeadingFence(t) ==
    IF t # <<>> /\ Head(t) = "<fence json>" THEN DropLeadingSpace(Tail(t)) ELSE t

\* variant: the closing fence is left in place
StripTrailingFence_Keep(t) == t

\* jsonText.replace(/\s*<fence>$/, "")
StripTrailingFence(t) ==
    IF t # <<>> /\ t[Len(t)] = "<fence>"
    THEN DropTrailingSpace(SubSeq(t, 1, Len(t) - 1))
    ELSE t

MsgSyntaxError == <<"Unexpected token in JSON">>
\* the message of a SyntaxError names the place of the error in the text
MsgSyntaxErrorAt(pos) == <<"Unexpected token in JSON at position ", pos>>

\* JSON.parse: white space around one JSON text is allowed
JSONParse(t) ==
    LET body == DropTrailingSpace(DropLeadingSpace(t))
    IN  IF body = <<"{full}">> THEN [ok |-> TRUE, value |-> FullResult, message |-> NoMessage]
        ELSE IF body = <<"{partial}">> THEN [ok |-> TRUE, value |-> PartialResult, message |-> NoMessage]
        ELSE IF body = <<"null">> THEN [ok |-> TRUE, value |-> NULL, message |-> NoMessage]
        ELSE IF body = <<"{malformed at 500}">>
        THEN [ok |-> FALSE, value |-> NULL, message |-> MsgSyntaxErrorAt("500")]
        ELSE [ok |-> FALSE, value |-> NULL, message |-> MsgSyntaxError]

Replies ==
    { <<>>,
      <<"{full}">>,
      <<"<fence json>", "\n", "{full}", "\n", "<fence>">>,
      <<"<fence json>", " ", "\n", "{partial}", "<fence>">>,
      <<"{partial}">>,
      <<"null">>,
      <<"{malformed at 500}">>,
      <<"Sorry, I cannot grade this.">> }

GeminiErrors == { <<"Rpc failed", " due to ", "xhr error">>, <<"API key not valid.">> }
QwenServerMessages == { <<"Incorrect API key provided.">>, <<"Internal error ", "500">> }
MsgFailedToFetch == <<"Failed to fetch">>
MsgNoChoices == <<"Cannot read properties of undefined ">>
QwenErrors ==
    { <<"Qwen API Error: ">> \o m : m \in QwenServerMessages }
    \cup {MsgFailedToFetch, MsgSyntaxError, MsgNoChoices}

Returned(text) == [threw |-> FALSE, text |-> text, message |-> NoMessage]
Threw(msg) == [threw |-> TRUE, text |-> <<>>, message |-> msg]

\* what the awaited backend call can settle with
NetOutcomes(provider) ==
    { Returned(t) : t \in Replies }
    \cup { Threw(m) : m \in (IF provider = "google" THEN GeminiErrors ELSE QwenErrors) }

(***************************************************************************)
(* Activations of handleGrade.  pc is the suspension point:                *)
(*   "student"  awaiting prepareFileForAI(studentFile)                     *)
(*   "rubric"   awaiting prepareFileForAI(rubricFile)                      *)
(*   "composed" getPromptsAndContext has returned (continuation queued)    *)
(*   "net"      awaiting the backend call                                  *)
(*   "settled"  gradeWithGemini / gradeWithQwen returned or threw          *)
(*              (continuation of handleGrade queued)                       *)
(***************************************************************************)
MicroPcs == {"composed", "settled"}
MicrotaskPending == \E r \in reqs : r.pc \in MicroPcs

Init ==
    /\ selectedModelId = FirstModelId
    /\ qwenApiKey = ""
    /\ studentMode = "file"
    /\ studentText = ""
    /\ studentFile = NULL
    /\ question = ""
    /\ rubricMode = "text"
    /\ rubricText = ""
    /\ rubricFile = NULL
    /\ isLoading = FALSE
    /\ result = NULL
    /\ error = NoError
    /\ reqs = {}
    /\ norm = NULL
    /\ preview = NULL

(***************************************************************************)
(* Form controls (App.tsx:484-541).                                        *)
(***************************************************************************)
SetSelectedModelId ==
    /\ ~MicrotaskPending
    /\ \E id \in SelectableModels : selectedModelId' = id
    /\ UNCHANGED <<qwenApiKey, studentMode, studentText, studentFile, question,
                   rubricMode, rubricText, rubricFile, isLoading, result, error,
                   reqs, norm, preview>>

\* the key input is rendered for the alibaba provider only
SetQwenApiKey ==
    /\ ~MicrotaskPending
    /\ CurrentModel(selectedModelId).provider = "alibaba"
    /\ \E k \in Keys : qwenApiKey' = k
    /\ UNCHANGED <<selectedModelId, studentMode, studentText, studentFile,
                   question, rubricMode, rubricText, rubricFile, isLoading,
                   result, error, reqs, norm, preview>>

SetStudentMode ==
    /\ ~MicrotaskPending
    /\ \E m \in Modes : studentMode' = m
    /\ UNCHANGED <<selectedModelId, qwenApiKey, studentText, studentFile,
                   question, rubricMode, rubricText, rubricFile, isLoading,
                   result, error, reqs, norm, preview>>

SetStudentText ==
    /\ ~MicrotaskPending
    /\ studentMode = "text"
    /\ \E t \in Texts : studentText' = t
    /\ UNCHANGED <<selectedModelId, qwenApiKey, studentMode, studentFile,
                   question, rubricMode, rubricText, rubricFile, isLoading,
                   result, error, reqs, norm, preview>>

SetQuestion ==
    /\ ~MicrotaskPending
    /\ \E t \in QuestionTexts : question' = t
    /\ UNCHANGED <<selectedModelId, qwenApiKey, studentMode, studentText,
                   studentFile, rubricMode, rubricText, rubricFile, isLoading,
                   result, error, reqs, norm, preview>>

SetRubricMode ==
    /\ ~MicrotaskPending
    /\ \E m \in Modes : rubricMode' = m
    /\ UNCHANGED <<selectedModelId, qwenApiKey, studentMode, studentText,
                   studentFile, question, rubricText, rubricFile, isLoading,
                   result, error, reqs, norm, preview>>

SetRubricText ==
    /\ ~MicrotaskPending
    /\ rubricMode = "text"
    /\ \E t \in Texts : rubricText' = t
    /\ UNCHANGED <<selectedModelId, qwenApiKey, studentMode, studentText,
                   studentFile, question, rubricMode, rubricFile, isLoading,
                   result, error, reqs, norm, preview>>

(***************************************************************************)
(* processFile (App.tsx:142-176), reached from the file input and from a   *)
(* drop on the drop zone of the field.                                     *)
(***************************************************************************)
\* variant: the result is cleared before the file is validated
ProcessFileOutcome_ClearsFirst(f, cur) ==
    IF ~IsValidType(f)
    THEN [file |-> cur, result |-> NULL, error |-> MsgUnsupportedType]
    ELSE IF TooLarge(f)
    THEN [file |-> cur, result |-> NULL, error |-> MsgTooLarge]
    ELSE [file |-> f, result |-> NULL, error |-> NoError]

ProcessFileOutcome(f, cur) ==
    IF ~IsValidType(f)
    THEN [file |-> cur, result |-> result, error |-> MsgUnsupportedType]
    ELSE IF TooLarge(f)
    THEN [file |-> cur, result |-> result, error |-> MsgTooLarge]
    ELSE [file |-> f, result |-> NULL, error |-> NoError]

\* processFile(f, setStudentFile, setStudentPreview); the upload zone of
\* the field is rendered in file mode only
SelectStudentFile(f) ==
    /\ ~MicrotaskPending
    /\ studentMode = "file"
    /\ LET o == ProcessFileOutcome(f, studentFile)
       IN  /\ studentFile' = o.file
           /\ result' = o.result
           /\ error' = o.error
    /\ UNCHANGED <<selectedModelId, qwenApiKey, studentMode, studentText,
                   question, rubricMode, rubricText, rubricFile, isLoading,
                   reqs, norm, preview>>

\* processFile(f, setRubricFile, setRubricPreview)
SelectRubricFile(f) ==
    /\ ~MicrotaskPending
    /\ rubricMode = "file"
    /\ LET o == ProcessFileOutcome(f, rubricFile)
       IN  /\ rubricFile' = o.file
           /\ result' = o.result
           /\ error' = o.error
    /\ UNCHANGED <<selectedModelId, qwenApiKey, studentMode, studentText,
                   studentFile, question, rubricMode, rubricText, isLoading,
                   reqs, norm, preview>>

ProcessStudentFile == \E f \in StudentFiles : SelectStudentFile(f)

ProcessRubricFile == \E f \in RubricFiles : SelectRubricFile(f)


(***************************************************************************)
(* handleGrade (App.tsx:414-450), with gradeWithGemini (323-368),          *)
(* gradeWithQwen (370-412) and getPromptsAndContext (266-321).             *)
(***************************************************************************)
\* the checks of lines 415-419, first failing check wins
ValidationError ==
    IF studentMode = "file" /\ studentFile = NULL THEN MsgNoStudentFile
    ELSE IF studentMode = "text" /\ Trim(studentText) = "" THEN MsgNoStudentText
    ELSE IF Trim(question) = "" THEN MsgNoQuestion
    ELSE IF rubricMode = "text" /\ Trim(rubricText) = "" THEN MsgNoRubricText
    ELSE IF rubricMode = "file" /\ rubricFile = NULL THEN MsgNoRubricFile
    ELSE NoError

\* variant: the button is never disabled
GradeButtonDisabled_Never == FALSE

\* disabled={isLoading} on the Start Grading button (line 556)
GradeButtonDisabled == isLoading

StudentMarker == "(See attached Student Response images)"
RubricMarker == "Refer to the attached Rubric/Key images."

\* getPromptsAndContext up to its first await: prepareFileForAI is started
\* for the student file, else for the rubric file, else nothing is awaited
GetPromptsStart(r) ==
    IF r.student # NULL THEN [r EXCEPT !.pc = "student", !.prepared = 1]
    ELSE IF r.rubric # NULL THEN [r EXCEPT !.pc = "rubric", !.prepared = 1]
    ELSE [r EXCEPT !.pc = "composed"]

\* variant: the credential is not checked before the files are prepared
GradeWithQwenStart_NoKeyCheck(r) == GetPromptsStart(r)

\* gradeWithQwen up to its first await: the credential check of line 371
GradeWithQwenStart(r) ==
    IF r.key = ""
    THEN [r EXCEPT !.pc = "settled", !.ret = Threw(MsgMissingKey)]
    ELSE GetPromptsStart(r)

\* variant: a held file is prepared whatever the mode of its field
NewReq_IgnoresMode ==
    LET model == CurrentModel(selectedModelId)
        sFile == IF studentFile # NULL
                 THEN studentFile ELSE NULL
        rFile == IF rubricFile # NULL
                 THEN rubricFile ELSE NULL
        r == [provider |-> model.provider,
             key |-> qwenApiKey,
             student |-> sFile,
             rubric |-> rFile,
             studentContent |-> IF studentMode = "file" THEN StudentMarker ELSE studentText,
             rubricContent |-> IF rubricMode = "file" THEN RubricMarker ELSE rubricText,
             pc |-> "entered",
             images |-> <<>>,
             prepared |-> 0,
             calls |-> 0,
             ret |-> Returned(<<>>),
             question |-> question,
             wire |-> NULL]
    IN  IF model.provider = "google" THEN GetPromptsStart(r)
        ELSE GradeWithQwenStart(r)

\* the activation created by a click that passed validation, at its first
\* suspension point; the closure holds the state of the render it came from
NewReq ==
    LET model == CurrentModel(selectedModelId)
        sFile == IF studentMode = "file" /\ studentFile # NULL
                 THEN studentFile ELSE NULL
        rFile == IF rubricMode = "file" /\ rubricFile # NULL
                 THEN rubricFile ELSE NULL
        r == [provider |-> model.provider,
             key |-> qwenApiKey,
             student |-> sFile,
             rubric |-> rFile,
             studentContent |-> IF sFile # NULL THEN StudentMarker ELSE studentText,
             rubricContent |-> IF rFile # NULL THEN RubricMarker ELSE rubricText,
             pc |-> "entered",
             images |-> <<>>,
             prepared |-> 0,
             calls |-> 0,
             ret |-> Returned(<<>>),
             question |-> question,
             wire |-> NULL]
    IN  IF model.provider = "google" THEN GetPromptsStart(r)
        ELSE GradeWithQwenStart(r)

HandleGrade ==
    /\ ~MicrotaskPending
    /\ ~GradeButtonDisabled
    /\ IF ValidationError # NoError
       THEN /\ error' = ValidationError
            /\ UNCHANGED <<isLoading, result, reqs>>
       ELSE /\ isLoading' = TRUE
            /\ error' = NoError
            /\ result' = NULL
            /\ reqs' = reqs \cup {NewReq}
    /\ UNCHANGED <<selectedModelId, qwenApiKey, studentMode, studentText,
                   studentFile, question, rubricMode, rubricText, rubricFile,
                   norm, preview>>

formVars == <<selectedModelId, qwenApiKey, studentMode, studentText,
              studentFile, question, rubricMode, rubricText, rubricFile>>

\* prepareFileForAI(studentFile) settles; getPromptsAndContext goes on to
\* the rubric
AfterStudent(r, out) ==
    IF ~out.ok THEN [r EXCEPT !.pc = "settled", !.ret = Threw(out.message)]
    ELSE IF r.rubric # NULL
    THEN [r EXCEPT !.pc = "rubric", !.images = out.parts,
                   !.prepared = r.prepared + 1]
    ELSE [r EXCEPT !.pc = "composed", !.images = out.parts]

StudentPrepared ==
    /\ \E r \in reqs :
         /\ r.pc = "student"
         /\ \E env \in EnvsFor(r.student) :
              reqs' = (reqs \ {r}) \cup
                      {AfterStudent(r, PrepareFileForAI(r.student, r.provider, env))}
    /\ UNCHANGED <<formVars, isLoading, result, error, norm, preview>>

AfterRubric(r, out) ==
    IF ~out.ok THEN [r EXCEPT !.pc = "settled", !.ret = Threw(out.message)]
    ELSE [r EXCEPT !.pc = "composed", !.images = r.images \o out.parts]

RubricPrepared ==
    /\ \E r \in reqs :
         /\ r.pc = "rubric"
         /\ \E env \in EnvsFor(r.rubric) :
              reqs' = (reqs \ {r}) \cup
                      {AfterRubric(r, PrepareFileForAI(r.rubric, r.provider, env))}
    /\ UNCHANGED <<formVars, isLoading, result, error, norm, preview>>

\* images.find(img => img.mimeType === 'application/pdf')
HasRawPdf(images) == \E i \in DOMAIN images : images[i].mimeType = PDF

(***************************************************************************)
(* The request put on the wire.  The two template literals of lines        *)
(* 289-319 are sequences of their fixed texts and interpolated values.     *)
(***************************************************************************)
SystemPrompt == <<"# AP FRQ Auto-Grader Persona">>

UserPrompt(r) ==
    <<"**Input Data:**",
      "* **[Question Prompt]:** ", r.question,
      "* **[Scoring Guidelines]:** ", r.rubricContent,
      "* **[Student Response]:** ", r.studentContent,
      "**Output Requirement:**">>

\* variant: the instruction text is pushed before the attachments
GeminiParts_TextFirst(images, userPrompt) ==
    <<[text |-> userPrompt]>>
    \o [i \in 1..Len(images) |->
          [inlineData |-> [data |-> images[i].data,
                           mimeType |-> images[i].mimeType]]]

\* lines 327-331: one inlineData part per image, then the text part
GeminiParts(images, userPrompt) ==
    [i \in 1..Len(images) |->
       [inlineData |-> [data |-> images[i].data,
                        mimeType |-> images[i].mimeType]]]
    \o <<[text |-> userPrompt]>>

\* the argument of generateContent (lines 357-366)
GeminiRequest(r) ==
    [contents |-> [parts |-> GeminiParts(r.images, UserPrompt(r))],
     systemInstruction |-> SystemPrompt]

\* the data URL of line 385, "data:" mime ";base64," data
DataUrl(mime, data) == [scheme |-> "data:", mime |-> mime, base64 |-> data]

\* lines 380-387: the text segment, then one image_url segment per image
QwenUserContent(images, userPrompt) ==
    <<[type |-> "text", text |-> userPrompt]>>
    \o [i \in 1..Len(images) |->
          [type |-> "image_url",
           image_url |-> [url |-> DataUrl(images[i].mimeType, images[i].data)]]]

\* the messages of the fetch body (lines 379, 389, 397-401)
QwenRequest(r) ==
    [messages |-> <<[role |-> "system", content |-> SystemPrompt],
                    [role |-> "user",
                     content |-> QwenUserContent(r.images, UserPrompt(r))]>>,
     authorization |-> <<"Bearer ", r.key>>]

WireRequest(r) ==
    IF r.provider = "google" THEN GeminiRequest(r) ELSE QwenRequest(r)

\* variant: the parts are not validated before the fetch
AfterContext_NoPdfCheck(r) ==
    [r EXCEPT !.pc = "net", !.calls = r.calls + 1, !.wire = WireRequest(r)]

\* the continuation after "await getPromptsAndContext()": gradeWithGemini
\* issues generateContent; gradeWithQwen validates the parts, then fetches
AfterContext(r) ==
    IF r.provider = "alibaba" /\ HasRawPdf(r.images)
    THEN [r EXCEPT !.pc = "settled", !.ret = Threw(MsgRawPdf)]
    ELSE [r EXCEPT !.pc = "net", !.calls = r.calls + 1,
                   !.wire = WireRequest(r)]

ContextReady ==
    /\ \E r \in reqs :
         /\ r.pc = "composed"
         /\ reqs' = (reqs \ {r}) \cup {AfterContext(r)}
    /\ UNCHANGED <<formVars, isLoading, result, error, norm, preview>>

\* variant: a failed call is issued once more
AfterNet_Retry(r, o) ==
    IF o.threw /\ r.calls < 2
    THEN [r EXCEPT !.pc = "composed"]
    ELSE [r EXCEPT !.pc = "settled", !.ret = o]

\* gradeWithGemini / gradeWithQwen after the awaited call: the reply text is
\* returned or the exception propagates; the call is not issued again
AfterNet(r, o) == [r EXCEPT !.pc = "settled", !.ret = o]

\* the backend call settles: reply text, or an exception
NetSettle ==
    /\ \E r \in reqs :
         /\ r.pc = "net"
         /\ \E o \in NetOutcomes(r.provider) :
              reqs' = (reqs \ {r}) \cup {AfterNet(r, o)}
    /\ UNCHANGED <<formVars, isLoading, result, error, norm, preview>>

\* variant: an empty text is handed to the parser like any other
Decode_NoEmptyCheck(ret) ==
    IF ret.threw THEN [ok |-> FALSE, value |-> NULL, message |-> ret.message]
    ELSE JSONParse(StripTrailingFence(StripLeadingFence(ret.text)))

\* lines 433-439: what the try block does with the returned text
Decode(ret) ==
    IF ret.threw THEN [ok |-> FALSE, value |-> NULL, message |-> ret.message]
    ELSE IF ret.text # <<>>
    THEN JSONParse(StripTrailingFence(StripLeadingFence(ret.text)))
    ELSE [ok |-> FALSE, value |-> NULL, message |-> MsgNoResponse]

\* variant: the message is surfaced as it was thrown
Surfaced_NoRewrite(message) ==
    IF message # NoMessage THEN message ELSE MsgDefault

\* lines 442-445: the message the catch block surfaces
Surfaced(message) ==
    LET msg == IF message # NoMessage THEN message ELSE MsgDefault
    IN  IF Includes(msg, "500") \/ Includes(msg, "Rpc failed")
           \/ Includes(msg, "xhr error")
        THEN MsgPayloadTooLarge
        ELSE msg

\* variant: isLoading is reset on the success path only
SettleState_NoFinally(d, res, err) ==
    IF d.ok
    THEN [result |-> d.value, error |-> err, isLoading |-> FALSE]
    ELSE [result |-> res, error |-> Surfaced(d.message), isLoading |-> TRUE]

\* the tail of handleGrade: try (decode, setResult), catch (setError),
\* finally (setIsLoading(false))
SettleState(d, res, err) ==
    IF d.ok
    THEN [result |-> d.value, error |-> err, isLoading |-> FALSE]
    ELSE [result |-> res, error |-> Surfaced(d.message), isLoading |-> FALSE]

HandleGradeSettle ==
    /\ \E r \in reqs :
         /\ r.pc = "settled"
         /\ LET st == SettleState(Decode(r.ret), result, error)
            IN  /\ result' = st.result
                /\ error' = st.error
                /\ isLoading' = st.isLoading
         /\ reqs' = reqs \ {r}
    /\ UNCHANGED <<formVars, norm, preview>>

Next ==
    \/ SetSelectedModelId
    \/ SetQwenApiKey
    \/ SetStudentMode
    \/ SetStudentText
    \/ SetQuestion
    \/ SetRubricMode
    \/ SetRubricText
    \/ ProcessStudentFile
    \/ ProcessRubricFile
    \/ HandleGrade
    \/ StudentPrepared
    \/ RubricPrepared
    \/ ContextReady
    \/ NetSettle
    \/ HandleGradeSettle

Spec == Init /\ [][Next]_vars


(***************************************************************************)
(* The normalizer on its own: prepareFileForAI called once on any accepted *)
(* file, for either provider.                                              *)
(***************************************************************************)
InitNorm ==
    /\ selectedModelId = FirstModelId
    /\ qwenApiKey = ""
    /\ studentMode = "file"
    /\ studentText = ""
    /\ studentFile = NULL
    /\ question = ""
    /\ rubricMode = "text"
    /\ rubricText = ""
    /\ rubricFile = NULL
    /\ isLoading = FALSE
    /\ result = NULL
    /\ error = NoError
    /\ reqs = {}
    /\ norm \in { NormIdle(f, p) : f \in NormFiles, p \in {"google", "alibaba"} }
    /\ preview = NULL

NextNorm == NormSettle

SpecNorm == InitNorm /\ [][NextNorm]_vars


(***************************************************************************)
(* Properties of the normalizer (checked under SpecNorm).                  *)
(***************************************************************************)
NormDone == norm # NULL /\ norm.pc = "settled"
NormParts == norm.out.parts
AllJpeg(ps) == \A i \in DOMAIN ps : ps[i].mimeType = JPEG

\* the PDF takes the rasterization branch and convertPdfToImages resolves
Rasterized ==
    /\ IsPdf(norm.file)
    /\ (norm.provider = "alibaba" \/ norm.file.size > PdfRasterMB * MB)
    /\ ~norm.env.pdfThrows

CappedPages == 1..Min(norm.file.numPages, PageCap)

C6_PageOrder ==
    (NormDone /\ Rasterized)
        => /\ norm.out.ok
           /\ Len(NormParts) = Min(norm.file.numPages, PageCap)
           /\ \A i \in DOMAIN NormParts :
                NormParts[i].data = CanvasData(norm.file, i, 0, 0)

\* C7: a JPEG/PNG/WEBP image under 2 MB normalizes, for either backend, to
\* exactly one part holding the file's own bytes under its declared type.
C7_SmallImageRoundTrip ==
    (NormDone /\ MatchesRaster(norm.file)
       /\ norm.file.size < SmallImageMB * MB /\ norm.out.ok)
        => NormParts = <<Part(RawData(norm.file), norm.file.type)>>

C7_Witness ==
    /\ NormDone /\ norm.out.ok
    /\ norm.file.type = PNG
    /\ norm.file.size = 2 * MB - 1
    /\ norm.provider = "alibaba"
    /\ NormParts[1].data.kind = "raw"

\* the longer edge of the image a part carries: of the canvas for a
\* re-encoded image, of the file's own image for raw bytes
LongerEdge(part) ==
    IF part.data.kind = "jpeg" THEN Max(part.data.w, part.data.h)
    ELSE Max(part.data.of.width, part.data.of.height)

LargeRaster == MatchesRaster(norm.file) /\ norm.file.size >= SmallImageMB * MB

\* C8 as stated: every JPEG/PNG/WEBP image of 2 MB or more comes back with
\* a longer edge of at most 1536 px and at most the original's.
C8_LargeImageBounded ==
    (NormDone /\ LargeRaster /\ norm.out.ok)
        => /\ Len(NormParts) = 1
           /\ LongerEdge(NormParts[1]) <= MAX_DIMENSION
           /\ LongerEdge(NormParts[1]) <= Max(norm.file.width, norm.file.height)

\* C8 amended: a JPEG/PNG/WEBP image of 2 MB or more comes back with a
\* longer edge of at most the original's, and of at most 1536 px whenever
\* resizeImage succeeds; when resizeImage fails the original bytes are
\* passed through with their own dimensions.
C8_LargeImageBoundedWhenResized ==
    (NormDone /\ LargeRaster /\ norm.out.ok)
        => /\ Len(NormParts) = 1
           /\ LongerEdge(NormParts[1]) <= Max(norm.file.width, norm.file.height)
           /\ (~norm.env.decodeFails
                 => /\ NormParts[1].mimeType = JPEG
                    /\ LongerEdge(NormParts[1]) <= MAX_DIMENSION)

C8_Witness ==
    /\ NormDone /\ LargeRaster /\ norm.out.ok
    /\ norm.file.width = 1000 /\ norm.file.height = 4000
    /\ NormParts[1].data.w = 384 /\ NormParts[1].data.h = 1536

\* C20: every successful normalization returns at least 1 and at most 5
\* parts, also for a PDF with zero pages or with a page that gets no canvas
\* context.
C20_OneToFiveParts ==
    (NormDone /\ norm.out.ok)
        => (Len(NormParts) >= 1 /\ Len(NormParts) <= 5)


\* the PDF branch of the policy is taken: rasterization is attempted
RasterBranch ==
    /\ IsPdf(norm.file)
    /\ (norm.provider = "alibaba" \/ norm.file.size > 3 * 1024 * 1024)

IsPage(part) == part.data.kind = "jpeg" /\ part.data.page >= 1
IsRawOf(part, f) == part.data = RawData(f)

\* C21: a PDF is rasterized exactly when the backend is alibaba or its size
\* exceeds 3 MB; a PDF of at most 3 MB on google comes back as one raw part
\* of type application/pdf, whatever the rasterizer would have done.
C21_PdfRasterizedIff ==
    (NormDone /\ IsPdf(norm.file))
        => IF RasterBranch
           THEN (norm.out.ok /\ ~norm.env.pdfThrows)
                  => \A i \in DOMAIN NormParts : IsPage(NormParts[i])
           ELSE /\ (~norm.env.readFails => norm.out.ok)
                /\ norm.out.ok
                     => NormParts = <<Part(RawData(norm.file), PDF)>>

\* C22: when rasterization throws, the raw PDF is passed through as one
\* part of type application/pdf only on google and under 5 MB; in every
\* other case normalization fails and returns no parts.
C22_RasterFailureFallback ==
    (NormDone /\ RasterBranch /\ norm.env.pdfThrows)
        => IF norm.provider = "google" /\ norm.file.size < 5 * 1024 * 1024
           THEN /\ (~norm.env.readFails => norm.out.ok)
                /\ norm.out.ok
                     => NormParts = <<Part(RawData(norm.file), PDF)>>
           ELSE /\ ~norm.out.ok
                /\ NormParts = <<>>
                /\ norm.out.message = MsgPdfFailed

ResizeFailed == LargeRaster /\ (norm.env.decodeFails \/ norm.env.readFails)

C24_HandledAsPdf == RasterBranch /\ ~norm.env.pdfThrows
C24_HandledAsImage ==
    /\ norm.file.type \in {JPEG, PNG, WEBP}
    /\ (norm.file.size < 2 * 1024 * 1024
          \/ ~(norm.env.decodeFails \/ norm.env.readFails))
    /\ ~C24_HandledAsPdf

\* C24: the policy is ordered.  A file returned by the PDF branch comes
\* back as page renderings; else a file returned by the image branch comes
\* back raw under its declared type (under 2 MB) or as one re-encoded JPEG;
\* only a file that neither branch returned reaches the raw branch, where it
\* yields one raw part, of type image/heic when its name ends in .heic in
\* any case, of its declared type otherwise.
C24_OrderedPolicy ==
    (NormDone /\ norm.out.ok)
        => IF C24_HandledAsPdf
           THEN \A i \in DOMAIN NormParts : IsPage(NormParts[i])
           ELSE IF C24_HandledAsImage
           THEN IF norm.file.size < 2 * 1024 * 1024
                THEN NormParts = <<Part(RawData(norm.file), norm.file.type)>>
                ELSE /\ Len(NormParts) = 1
                     /\ NormParts[1].data.kind = "jpeg"
                     /\ NormParts[1].mimeType = JPEG
           ELSE /\ Len(NormParts) = 1
                /\ IsRawOf(NormParts[1], norm.file)
                /\ NormParts[1].mimeType =
                       (IF norm.file.ext \in {".heic", ".HEIC"}
                        THEN HEICT ELSE norm.file.type)

\* a file named .HEIC that declares no type came back as image/heic
C24_Witness ==
    /\ NormDone /\ norm.out.ok
    /\ norm.file.ext = ".HEIC" /\ norm.file.type = NOTYPE
    /\ NormParts = <<Part(RawData(norm.file), HEICT)>>

\* C30: every part of a successful normalization has non-empty data.
C30_NonEmptyData ==
    (NormDone /\ norm.out.ok)
        => \A i \in DOMAIN NormParts : ~DataIsEmpty(NormParts[i].data)

(***************************************************************************)
(* The dispatcher on its own: gradeWithGemini / gradeWithQwen resumed      *)
(* after getPromptsAndContext with any sequence of parts, including ones   *)
(* prepareFileForAI does not produce for that provider.                    *)
(***************************************************************************)
MaxParts == 3

UnitParts ==
    { Part(CanvasData(PdfSmall, 1, 0, 0), JPEG),
      Part(RawData(ImgSmall), JPEG),
      Part(RawData(PdfSmall), PDF) }

RECURSIVE PartSeqs(_)
PartSeqs(n) ==
    IF n = 0 THEN {<<>>}
    ELSE PartSeqs(n - 1)
         \cup { Append(q, x) : q \in { z \in PartSeqs(n - 1) : Len(z) = n - 1 },
                               x \in UnitParts }

ComposedReq(provider, images) ==
    [provider |-> provider, key |-> "sk-key",
     student |-> PdfSmall, rubric |-> NULL,
     studentContent |-> StudentMarker, rubricContent |-> "text",
     pc |-> "composed", images |-> images, prepared |-> 1, calls |-> 0,
     ret |-> Returned(<<>>), question |-> "Explain X", wire |-> NULL]

InitDispatch ==
    /\ selectedModelId \in SelectableModels
    /\ qwenApiKey = "sk-key"
    /\ studentMode = "file"
    /\ studentText = ""
    /\ studentFile = PdfSmall
    /\ question = "Explain X"
    /\ rubricMode = "text"
    /\ rubricText = "text"
    /\ rubricFile = NULL
    /\ isLoading = TRUE
    /\ result = NULL
    /\ error = NoError
    /\ \E images \in PartSeqs(MaxParts) :
         reqs = {ComposedReq(CurrentModel(selectedModelId).provider, images)}
    /\ norm = NULL
    /\ preview = NULL

NextDispatch ==
    \/ ContextReady
    \/ NetSettle
    \/ HandleGradeSettle

SpecDispatch == InitDispatch /\ [][NextDispatch]_vars

(***************************************************************************)
(* Properties of the request life cycle.                                   *)
(***************************************************************************)
Succeeded == ~isLoading /\ result # NULL /\ error = NoError
Failed == ~isLoading /\ error # NoError /\ result = NULL

\* C1: a dispatched request ends in exactly one of Succeeded (result set,
\* error null) or Failed (error set, result null), with isLoading false
\* again: the step that ends the loading leaves one of the two.
C1_EndsSucceededOrFailed ==
    [][(isLoading /\ ~isLoading') => (Succeeded' \/ Failed')]_vars

\* C2: at most one activation is in flight, hence at most one backend call;
\* while one is in flight isLoading is set, which disables the control.
C2_InFlight == { r \in reqs : r.pc = "net" }

C2_OneInFlight ==
    /\ Cardinality(reqs) <= 1
    /\ Cardinality(C2_InFlight) <= 1
    /\ (reqs # {} => isLoading)

C2_Witness ==
    /\ GradeButtonDisabled
    /\ \E r \in reqs : r.pc = "net"

\* C3: the step that ends a failed dispatch, whatever stage failed, leaves
\* the error set, isLoading false and the control enabled; and whenever the
\* control is enabled and the inputs are valid, handleGrade dispatches.
C3_Ready ==
    /\ ~GradeButtonDisabled
    /\ ~MicrotaskPending
    /\ ValidationError = NoError

C3_Dispatch == HandleGrade /\ isLoading' /\ reqs' # {}

C3_ReadyAfterFailure ==
    /\ [][\A r \in reqs :
            (r.pc = "settled" /\ ~Decode(r.ret).ok /\ r \notin reqs')
              => (~isLoading' /\ ~GradeButtonDisabled' /\ reqs' = {}
                  /\ error' # NoError)]_vars
    /\ [](C3_Ready => ENABLED C3_Dispatch)

\* a dispatch has failed in the normalization of a PDF; the form is still
\* valid and the control enabled
C3_Witness ==
    /\ error = MsgPdfFailed
    /\ reqs = {}
    /\ C3_Ready

\* C4: no failure is retried: an activation issues at most one backend
\* call, and the step that ends an activation starts or resumes no other.
C4_NoRetry ==
    /\ [](\A r \in reqs : r.calls <= 1 /\ (r.pc = "net" => r.calls = 1))
    /\ [][(\E r \in reqs : r.pc = "settled" /\ r \notin reqs')
            => reqs' \subseteq reqs]_vars

\* a backend call has failed, its error is surfaced, nothing is in flight
C4_Witness ==
    /\ reqs = {}
    /\ ~isLoading
    /\ error = <<"API key not valid.">>

\* C9: a Backend B dispatch whose parts include a raw PDF fails with the
\* UnsupportedPayload message and issues no network call.
C9_IsRawPdfForQwen(r) == r.provider = "alibaba" /\ HasRawPdf(r.images)

C9_RawPdfRejected ==
    /\ [](\A r \in reqs :
            C9_IsRawPdfForQwen(r)
              => /\ r.calls = 0
                 /\ r.pc \in {"composed", "settled"}
                 /\ (r.pc = "settled" => r.ret = Threw(MsgRawPdf)))
    /\ [][\A r \in reqs :
            (C9_IsRawPdfForQwen(r) /\ r.pc = "settled" /\ r \notin reqs')
              => (error' = MsgRawPdf /\ result' = NULL /\ reqs' = {}
                  /\ ~isLoading')]_vars

C9_Witness ==
    /\ error = MsgRawPdf
    /\ ~isLoading
    /\ reqs = {}

\* C10: a Backend B dispatch with an empty credential fails with the
\* MissingCredential message before any file is prepared and before any
\* network call.
C10_NoKey(r) == r.provider = "alibaba" /\ r.key = ""

C10_MissingCredential ==
    /\ [](\A r \in reqs :
            C10_NoKey(r)
              => /\ r.pc = "settled"
                 /\ r.ret = Threw(MsgMissingKey)
                 /\ r.prepared = 0
                 /\ r.calls = 0
                 /\ r.images = <<>>)
    /\ [][\A r \in reqs :
            (C10_NoKey(r) /\ r.pc = "settled" /\ r \notin reqs')
              => (error' = MsgMissingKey /\ result' = NULL
                  /\ reqs' = {} /\ ~isLoading')]_vars

\* the failed activation had a student file to prepare
C10_Witness ==
    \E r \in reqs : C10_NoKey(r) /\ r.student # NULL /\ r.pc = "settled"

(***************************************************************************)
(* The student-paper preview of the App of unnamed/part_002: an object URL *)
(* held in studentPaperUrl.  Handles are numbered in creation order, 0 is  *)
(* the null of studentPaperUrl.  handleFileChange runs its state updater;  *)
(* the render it causes commits with the effect of lines 34-40 still to be *)
(* flushed, which React does before it handles the next event.             *)
(***************************************************************************)
MaxUrls == 6         \* calls of URL.createObjectURL

PaperFiles == {ImgSmall, PdfSmall}

\* URL.revokeObjectURL(h)
RevokeObjectURL(revoked, h) == [revoked EXCEPT ![h] = revoked[h] + 1]

InitPreview ==
    /\ selectedModelId = FirstModelId
    /\ qwenApiKey = ""
    /\ studentMode = "file"
    /\ studentText = ""
    /\ studentFile = NULL
    /\ question = ""
    /\ rubricMode = "text"
    /\ rubricText = ""
    /\ rubricFile = NULL
    /\ isLoading = FALSE
    /\ result = NULL
    /\ error = NoError
    /\ reqs = {}
    /\ norm = NULL
    /\ preview = [studentPaper |-> NULL, solutionFile |-> NULL,
                  studentPaperUrl |-> 0, effectUrl |-> 0,
                  effectPending |-> FALSE, mounted |-> TRUE, created |-> 0,
                  revoked |-> [h \in 1..MaxUrls |-> 0]]

\* handleFileChange(file), file null when the selection is cleared
HandleFileChange ==
    /\ preview.mounted
    /\ ~preview.effectPending
    /\ \E file \in PaperFiles \cup {NULL} :
         /\ file # NULL => preview.created < MaxUrls
         /\ LET prevUrl == preview.studentPaperUrl
                afterRevoke == IF prevUrl # 0
                               THEN RevokeObjectURL(preview.revoked, prevUrl)
                               ELSE preview.revoked
                newUrl == IF file # NULL THEN preview.created + 1 ELSE 0
            IN  preview' = [preview EXCEPT
                              !.studentPaper = file,
                              !.studentPaperUrl = newUrl,
                              !.created = IF file # NULL THEN preview.created + 1
                                          ELSE preview.created,
                              !.revoked = afterRevoke,
                              !.effectPending = (newUrl # prevUrl)]
    /\ result' = NULL
    /\ error' = NoError
    /\ UNCHANGED <<formVars, isLoading, reqs, norm>>

\* handleSolutionFileChange(file)
HandleSolutionFileChange ==
    /\ preview.mounted
    /\ ~preview.effectPending
    /\ \E file \in {PdfSmall, NULL} :
         preview' = [preview EXCEPT !.solutionFile = file]
    /\ result' = NULL
    /\ error' = NoError
    /\ UNCHANGED <<formVars, isLoading, reqs, norm>>

\* the commit after studentPaperUrl changed: the cleanup of the previous
\* effect runs with the URL it closed over, then the effect is set up again
EffectCleanup ==
    /\ preview.mounted
    /\ preview.effectPending
    /\ preview' = [preview EXCEPT
                     !.revoked = IF preview.effectUrl # 0
                                 THEN RevokeObjectURL(preview.revoked, preview.effectUrl)
                                 ELSE preview.revoked,
                     !.effectUrl = preview.studentPaperUrl,
                     !.effectPending = FALSE]
    /\ UNCHANGED <<appVars, norm>>

\* the component unmounts: the cleanup of the last effect runs
Unmount ==
    /\ preview.mounted
    /\ ~preview.effectPending
    /\ preview' = [preview EXCEPT
                     !.revoked = IF preview.effectUrl # 0
                                 THEN RevokeObjectURL(preview.revoked, preview.effectUrl)
                                 ELSE preview.revoked,
                     !.mounted = FALSE]
    /\ UNCHANGED <<appVars, norm>>

NextPreview ==
    \/ HandleFileChange
    \/ HandleSolutionFileChange
    \/ EffectCleanup
    \/ Unmount

SpecPreview == InitPreview /\ [][NextPreview]_vars

\* C17: every object URL created for a student paper is released exactly
\* once: never more than once, and once at the latest when the component
\* has unmounted.
C17_ReleasedExactlyOnce ==
    \A h \in 1..preview.created :
        /\ preview.revoked[h] <= 1
        /\ (~preview.mounted => preview.revoked[h] = 1)

(***************************************************************************)
(* File selection on its own: processFile on any file a user can pick or   *)
(* drop, for both fields.                                                  *)
(***************************************************************************)
SelectionFiles ==
    { File(e, t, s, 1, 1000, 1000) :
        e \in {".jpg", ".HEIC"},
        t \in {JPEG, GIF, PDF, TXT, NOTYPE},
        s \in {10 * MB, 10 * MB + 1} }

DropStudentFile == \E f \in SelectionFiles : SelectStudentFile(f)

DropRubricFile == \E f \in SelectionFiles : SelectRubricFile(f)

NextSelect ==
    \/ SetStudentMode
    \/ SetRubricMode
    \/ DropStudentFile
    \/ DropRubricFile

SpecSelect == Init /\ [][NextSelect]_vars

(***************************************************************************)
(* Properties of file selection (checked under SpecSelect).                *)
(***************************************************************************)
C14_AcceptedType(f) ==
    f.type[1] = "image" \/ f.type = PDF \/ f.ext \in {".heic", ".HEIC"}

C14_Selecting(f) == SelectStudentFile(f) \/ SelectRubricFile(f)

\* C14: the stored student and rubric files have an accepted type (declared
\* type image/..., application/pdf, or a name ending in .heic in any case);
\* selecting a file of any other type sets the unsupported-type message and
\* leaves the stored files as they were; selecting a file of an accepted
\* type never sets that message.
C14_OnlyAcceptedTypesStored ==
    /\ [](/\ studentFile # NULL => C14_AcceptedType(studentFile)
          /\ rubricFile # NULL => C14_AcceptedType(rubricFile))
    /\ [][\A f \in SelectionFiles :
            C14_Selecting(f)
              => IF C14_AcceptedType(f)
                 THEN error' # MsgUnsupportedType
                 ELSE /\ error' = MsgUnsupportedType
                      /\ studentFile' = studentFile
                      /\ rubricFile' = rubricFile]_vars

\* a file with no declared type and an upper-case .HEIC name is stored, and
\* a later selection has been rejected for its type
C14_Witness ==
    /\ studentFile # NULL
    /\ studentFile.ext = ".HEIC"
    /\ studentFile.type = NOTYPE
    /\ error = MsgUnsupportedType

C15_Over(f) == f.size > 10 * 1024 * 1024
C15_SizeChecked(f) == f.type = PDF \/ f.ext \in {".heic", ".HEIC"}

\* C15 as stated: no stored file exceeds 10 MB, whatever its type.
C15_NoOversizedStored ==
    /\ studentFile # NULL => ~C15_Over(studentFile)
    /\ rubricFile # NULL => ~C15_Over(rubricFile)

\* C15 amended: a PDF or a file named .heic that exceeds 10 MB is rejected
\* at selection with the too-large message and is never stored; the size of
\* any other image is not checked, and such an image is stored at any size.
C15_OversizedPdfHeicRejected ==
    /\ [](/\ (studentFile # NULL /\ C15_SizeChecked(studentFile))
               => ~C15_Over(studentFile)
          /\ (rubricFile # NULL /\ C15_SizeChecked(rubricFile))
               => ~C15_Over(rubricFile))
    /\ [][\A f \in SelectionFiles :
            (C14_Selecting(f) /\ C14_AcceptedType(f) /\ C15_Over(f))
              => IF C15_SizeChecked(f)
                 THEN /\ error' = MsgTooLarge
                      /\ studentFile' = studentFile
                      /\ rubricFile' = rubricFile
                      /\ result' = result
                 ELSE /\ error' = NoError
                      /\ (studentFile' = f \/ rubricFile' = f)]_vars

\* an oversized HEIC has been rejected while an oversized JPEG is stored
C15_Witness ==
    /\ error = MsgTooLarge
    /\ rubricFile # NULL
    /\ rubricFile.type = JPEG
    /\ C15_Over(rubricFile)

(***************************************************************************)
(* Properties of reply decoding.                                           *)
(***************************************************************************)
C11_Bodies == { <<"{full}">>, <<"{partial}">> }
C11_Spaces == { <<>>, <<"\n">>, <<" ", "\n">> }

\* a JSON object between an opening fence tagged json and a closing fence
C11_Wrap(body, before, after) ==
    <<"<fence json>">> \o before \o body \o after \o <<"<fence>">>

C11_IsWrapped(text) ==
    \E b \in C11_Bodies, w1 \in C11_Spaces, w2 \in C11_Spaces :
        text = C11_Wrap(b, w1, w2)

C11_BareOf(text) ==
    CHOOSE b \in C11_Bodies :
        \E w1 \in C11_Spaces, w2 \in C11_Spaces : text = C11_Wrap(b, w1, w2)

C11_Settling(r) ==
    r.pc = "settled" /\ ~r.ret.threw /\ C11_IsWrapped(r.ret.text)

C12_IncompleteReplies ==
    { <<"{partial}">>, <<"<fence json>", " ", "\n", "{partial}", "<fence>">> }

\* C12: a reply that is valid JSON but lacks a required field makes the
\* dispatch fail: the settling step sets the error and stores no result.
C12_MalformedReplyFails ==
    [][\A r \in reqs :
         (r.pc = "settled" /\ ~r.ret.threw /\ r.ret.text \in C12_IncompleteReplies
            /\ r \notin reqs')
           => (error' # NoError /\ result' = NULL)]_vars

\* C13: a backend call of either backend that returns an empty text makes
\* the dispatch fail with the no-response message, the result staying null.
C13_EmptyReplyFails ==
    [][\A r \in reqs :
         (r.pc = "settled" /\ r.ret = Returned(<<>>) /\ r \notin reqs')
           => (/\ r.calls = 1
               /\ error' = <<"No response received from AI.">>
               /\ result' = NULL
               /\ ~isLoading'
               /\ reqs' = {})]_vars

C13_Witness ==
    /\ error = MsgNoResponse
    /\ result = NULL
    /\ ~isLoading
    /\ reqs = {}
    /\ CurrentModel(selectedModelId).provider = "alibaba"

C16_Substrings == {"500", "Rpc failed", "xhr error"}
C16_Recognized(msg) == \E i \in DOMAIN msg : msg[i] \in C16_Substrings

\* C16: the step that ends a failed dispatch surfaces one message: the
\* payload-too-large guidance when the thrown message contains "500",
\* "Rpc failed" or "xhr error", else the thrown message itself (the default
\* message when the thrown value has none).
C16_TransportRewrite ==
    [][\A r \in reqs :
         (r.pc = "settled" /\ r \notin reqs')
           => /\ (~Decode(r.ret).ok => error' # NoError)
              /\ (r.ret.threw /\ C16_Recognized(r.ret.message)
                    => error' = MsgPayloadTooLarge)
              /\ (r.ret.threw /\ ~C16_Recognized(r.ret.message)
                    => error' = (IF r.ret.message = NoMessage
                                 THEN MsgDefault ELSE r.ret.message))]_vars

C16_Witness ==
    /\ error = MsgPayloadTooLarge
    /\ result = NULL
    /\ ~isLoading
    /\ reqs = {}

(***************************************************************************)
(* Properties of the held result and of composition.                       *)
(***************************************************************************)
\* a click on Start Grading that passed validation
C18_Submitted == ~isLoading /\ isLoading' /\ reqs = {} /\ reqs' # {}

C18_Storable(f) == C14_AcceptedType(f) /\ ~(C15_SizeChecked(f) /\ C15_Over(f))

\* processFile accepted a file for one of the two fields
C18_FileAccepted ==
    \/ \E f \in StudentFiles : C18_Storable(f) /\ SelectStudentFile(f)
    \/ \E f \in RubricFiles : C18_Storable(f) /\ SelectRubricFile(f)

\* C18 as stated: a held result changes only in the step that submits the
\* next grading request.
C18_HeldUntilSubmit ==
    [][(result # NULL /\ result' # result) => C18_Submitted]_vars

\* C18 amended: a held result is never replaced by another value; it is
\* discarded (set to null) only by the step that submits the next grading
\* request or by the step that accepts a newly selected student or rubric
\* file.  Editing a text, switching a mode or the model, entering the key,
\* a rejected file selection and a rejected click leave it unchanged.
C18_HeldUntilSubmitOrNewFile ==
    [][(result # NULL /\ result' # result)
         => (result' = NULL /\ (C18_Submitted \/ C18_FileAccepted))]_vars

\* the result is still held after the form was edited and a click on Start
\* Grading was rejected by validation
C18_Witness ==
    /\ result = FullResult
    /\ error = MsgNoStudentText
    /\ studentMode = "text"
    /\ reqs = {}

C19_FilesOf(r) == {r.student, r.rubric} \ {NULL}

\* C19: in every activation, for the student answer and for the rubric,
\* either the field's text is the content put in the instruction and the
\* field contributes no file, or the field's file is prepared and the
\* content is the marker that refers to the attached images; the attached
\* images all come from the files of the fields that are in file mode.  The
\* step that submits the request picks the side by the mode of the field.
C19_ModesExclusive ==
    /\ [](\A r \in reqs :
            /\ IF r.student = NULL
               THEN r.studentContent \in Texts \ {""}
               ELSE r.studentContent = StudentMarker
            /\ IF r.rubric = NULL
               THEN r.rubricContent \in Texts \ {""}
               ELSE r.rubricContent = RubricMarker
            /\ \A i \in DOMAIN r.images :
                 r.images[i].data.of \in C19_FilesOf(r)
            /\ (C19_FilesOf(r) = {} => r.images = <<>>))
    /\ [][C18_Submitted
            => \A r \in reqs' :
                 /\ IF studentMode = "text"
                    THEN r.student = NULL /\ r.studentContent = studentText
                    ELSE r.student = studentFile /\ r.studentContent = StudentMarker
                 /\ IF rubricMode = "text"
                    THEN r.rubric = NULL /\ r.rubricContent = rubricText
                    ELSE r.rubric = rubricFile /\ r.rubricContent = RubricMarker]_vars

\* a request in flight was composed from the student text while a leftover
\* student file was held, and from the rubric file while a leftover rubric
\* text was held
C19_Witness ==
    \E r \in reqs :
        /\ r.pc = "net"
        /\ studentMode = "text" /\ studentFile # NULL /\ studentText = "text"
        /\ rubricMode = "file" /\ rubricFile # NULL /\ rubricText = "text"
        /\ r.student = NULL /\ r.studentContent = "text"
        /\ r.rubric = rubricFile /\ r.rubricContent = RubricMarker
        /\ r.images # <<>>
        /\ \A i \in DOMAIN r.images : r.images[i].data.of = r.rubric

(***************************************************************************)
(* Properties of the request on the wire.                                  *)
(***************************************************************************)
C25_Sent == { r \in reqs : r.wire # NULL }

\* the segments of the request that carry an attachment or a text, in order
C25_Segments(r) ==
    IF r.provider = "google" THEN r.wire.contents.parts
    ELSE r.wire.messages[2].content

C25_IsText(seg) == "text" \in DOMAIN seg

\* the image part a segment carries
C25_Attached(r, seg) ==
    IF r.provider = "google"
    THEN Part(seg.inlineData.data, seg.inlineData.mimeType)
    ELSE Part(seg.image_url.url.base64, seg.image_url.url.mime)

\* position of the first attachment
C25_First(r) == IF r.provider = "google" THEN 1 ELSE 2

\* position of the instruction text
C25_TextAt(r) == IF r.provider = "google" THEN Len(r.images) + 1 ELSE 1

\* C25: a request that was sent carries one attachment per image part, in
\* the assembled order with every part of the student file before every
\* part of the rubric file, and exactly one instruction text segment: the
\* last part for the google backend, the first segment of the user message
\* for the alibaba backend; with both inputs given as text it carries no
\* attachment and one text segment.
C25_WireRequest ==
    \A r \in C25_Sent :
      LET segs == C25_Segments(r)
          n == Len(r.images)
      IN  /\ Len(segs) = n + 1
          /\ \A i \in 1..n :
               /\ ~C25_IsText(segs[C25_First(r) + i - 1])
               /\ C25_Attached(r, segs[C25_First(r) + i - 1]) = r.images[i]
          /\ { i \in DOMAIN segs : C25_IsText(segs[i]) } = {C25_TextAt(r)}
          /\ segs[C25_TextAt(r)].text = UserPrompt(r)
          /\ \E k \in 0..n :
               /\ \A i \in 1..k : r.images[i].data.of = r.student
               /\ \A i \in (k + 1)..n : r.images[i].data.of = r.rubric
               /\ r.student = NULL => k = 0
               /\ r.rubric = NULL => k = n
          /\ (r.studentContent # StudentMarker /\ r.rubricContent # RubricMarker)
                => n = 0 /\ Len(segs) = 1 /\ C25_IsText(segs[1])

C25_Witness ==
    \E r \in reqs :
      /\ r.pc = "net"
      /\ r.provider = "google"
      /\ r.student = ImgSmall
      /\ r.rubric = PdfSmall
      /\ Len(r.wire.contents.parts) = 3
      /\ r.wire.contents.parts[3] = [text |-> UserPrompt(r)]

(***************************************************************************)
(* Properties of what is displayed.                                        *)
(***************************************************************************)
\* C26: the step that ends a dispatch and displays a result displays it for
\* the files that are selected at that moment: the student file and the
\* rubric file the dispatch prepared are the ones still selected.
C26_ResultOfSelectedFiles ==
    [][\A r \in reqs :
         (r.pc = "settled" /\ r \notin reqs' /\ result' # NULL /\ ~isLoading')
           => /\ (r.student # NULL => studentFile' = r.student)
              /\ (r.rubric # NULL => rubricFile' = r.rubric)]_vars

\* C27: result and error are never both set.
C27_ResultXorError == ~(result # NULL /\ error # NoError)

\* the failure is one of the backend call itself: the call was issued and
\* threw (non-success status, transport error)
C28_BackendFailure(r) == r.calls > 0 /\ r.ret.threw

\* C28: the step that ends a dispatch which failed otherwise than by the
\* backend call (credential, raw PDF, conversion, empty reply, reply that
\* does not parse) surfaces the failure's own message (the default message
\* when it has none).
C28_OnlyBackendRewritten ==
    [][\A r \in reqs :
         (r.pc = "settled" /\ r \notin reqs' /\ ~Decode(r.ret).ok
            /\ ~C28_BackendFailure(r))
           => error' = (IF Decode(r.ret).message = NoMessage
                        THEN MsgDefault ELSE Decode(r.ret).message)]_vars

(***************************************************************************)
(* Properties of the validation of handleGrade.                            *)
(***************************************************************************)
C29_Blank == {"", " "}

C29_MissingInput ==
    \/ studentMode = "file" /\ studentFile = NULL
    \/ studentMode = "text" /\ studentText \in C29_Blank
    \/ question \in C29_Blank
    \/ rubricMode = "text" /\ rubricText \in C29_Blank
    \/ rubricMode = "file" /\ rubricFile = NULL

C29_Messages ==
    {MsgNoStudentFile, MsgNoStudentText, MsgNoQuestion, MsgNoRubricText,
     MsgNoRubricFile}

\* C29: a click on Start Grading while an input is missing sets error to
\* one of the five validation messages and changes nothing else: isLoading,
\* result, the selected files and the rest of the form are as before, no
\* activation is created and none advances.
C29_MissingInputOnlySetsError ==
    [][(HandleGrade /\ C29_MissingInput)
         => /\ error' \in C29_Messages
            /\ UNCHANGED <<isLoading, result, studentFile, rubricFile, reqs,
                           norm, formVars>>]_vars

C29_Witness ==
    /\ error = MsgNoQuestion
    /\ question = " "
    /\ result = FullResult
    /\ studentFile # NULL
    /\ ~isLoading
    /\ reqs = {}


====
